---------------------------- MODULE Spec2Model ----------------------------
(***************************************************************************)
(* Options Pricing & PnL Tool (src/app.py).                                *)
(*                                                                         *)
(* The Streamlit script runs top to bottom on every widget interaction:    *)
(* it reads the widgets, builds the spot and strike ranges, the long-form  *)
(* table of (spot, strike) pairs, the P&L column, the pivoted heatmap      *)
(* table, the headline net return, and renders the heatmap.                *)
(*                                                                         *)
(* Numbers.  Python floats are modelled in fixed point:                    *)
(*   money inputs (S, K, range points)  in 1/MoneyScale dollars            *)
(*   rates and volatilities             in 1/RateScale (the slider step)   *)
(*   time to expiry                     in days (t = days / 365)           *)
(*   d1, d2                             in 1/DScale                        *)
(*   Phi                                in 1/PhiScale                      *)
(*   exp(-r t)                          in 1/ExpScale                      *)
(*   option prices                      in cents, P&L in cents             *)
(* A float value is a record [k, n]: k = "fin" with the fixed-point        *)
(* number n, "nan", "inf" (n the sign), "none" (Python's None), or the     *)
(* name of the exception an expression raised.                             *)
(***************************************************************************)
EXTENDS Integers, Sequences, FiniteSets, TLC

\* ------------------------------------------------------------ float values
Fin(n) == [k |-> "fin", n |-> n]
NaN == [k |-> "nan", n |-> 0]
Inf(sign) == [k |-> "inf", n |-> sign]
None == [k |-> "none", n |-> 0]
Raised(e) == [k |-> e, n |-> 0]

\* ------------------------------------------------------------- resolutions
MoneyScale == 2
RateScale == 100
DaysPerYear == 365
LnScale == 10^4
DScale == 10^3
PhiScale == 10^4
ExpScale == 10^3
CentScale == 100

\* ------------------------------------------------------ integer arithmetic
Abs(n) == IF n < 0 THEN -n ELSE n

Sign(n) == IF n < 0 THEN -1 ELSE IF n > 0 THEN 1 ELSE 0

\* Quotient truncated toward zero (q > 0).
TruncDiv(n, q) == Sign(n) * (Abs(n) \div q)

\* Nearest multiple count of q, ties to the even one (q > 0): what round()
\* does to a float, here on fixed-point numbers.
RoundHalfEven(n, q) ==
    LET f == n \div q
        rem == n - f * q
    IN  IF 2 * rem < q THEN f
        ELSE IF 2 * rem > q THEN f + 1
        ELSE IF f % 2 = 0 THEN f ELSE f + 1

RECURSIVE IsqrtFrom(_, _, _)
IsqrtFrom(n, lo, hi) ==
    IF lo >= hi THEN lo
    ELSE LET mid == (lo + hi + 1) \div 2
         IN  IF mid * mid <= n THEN IsqrtFrom(n, mid, hi)
             ELSE IsqrtFrom(n, lo, mid - 1)

\* Floor of the square root of n, 0 <= n < 2^30.
Isqrt(n) == IsqrtFrom(n, 0, 32767)

\* ------------------------------------------------------- library functions
\* t ** 0.5 for t = days / 365, in 1/DScale.
SqrtYears(days) == Isqrt((days * DScale * DScale) \div DaysPerYear)

RECURSIVE AtanhSeries(_, _, _, _)
\* z + z^3/3 + z^5/5 + ... up to the term of degree maxDeg, z in 1/LnScale.
AtanhSeries(zpow, zsq, deg, maxDeg) ==
    IF deg > maxDeg \/ zpow = 0 THEN 0
    ELSE (zpow \div deg)
         + AtanhSeries((zpow * zsq) \div LnScale, zsq, deg + 2, maxDeg)

\* np.log(S / K) in 1/LnScale, for S, K > 0:
\* ln(S/K) = 2 atanh((S - K) / (S + K)).
LogRatio(S, K) ==
    LET z == (Abs(S - K) * LnScale) \div (S + K)
        zsq == (z * z) \div LnScale
    IN  Sign(S - K) * 2 * AtanhSeries(z, zsq, 1, 25)

RECURSIVE ExpSeries(_, _, _, _)
\* Sum over n >= deg of (-x)^n / n!, term = x^deg / deg!, x in 1/LnScale.
ExpSeries(term, x, deg, maxDeg) ==
    IF deg > maxDeg \/ term = 0 THEN 0
    ELSE (IF deg % 2 = 0 THEN term ELSE -term)
         + ExpSeries((term * x) \div ((deg + 1) * LnScale), x, deg + 1, maxDeg)

\* np.exp(-r * t) in 1/ExpScale, r in 1/RateScale, t in days.
ExpNegRT(r, days) ==
    LET x == (r * days * LnScale) \div (RateScale * DaysPerYear)
    IN  RoundHalfEven(ExpSeries(LnScale, x, 0, 30), LnScale \div ExpScale)

\* The standard normal CDF at 0.0, 0.1, ..., 4.0, in 1/PhiScale.
PhiTable ==
    << 5000, 5398, 5793, 6179, 6554, 6915, 7257, 7580, 7881, 8159,
       8413, 8643, 8849, 9032, 9192, 9332, 9452, 9554, 9641, 9713,
       9772, 9821, 9861, 9893, 9918, 9938, 9953, 9965, 9974, 9981,
       9987, 9990, 9993, 9995, 9997, 9998, 9998, 9999, 9999, 10000,
       10000 >>

\* Phi(d) for a finite d >= 0 in 1/DScale: the table, interpolated.
PhiNonNeg(d) ==
    LET cell == DScale \div 10
        i == d \div cell
        frac == d % cell
    IN  IF i >= Len(PhiTable) - 1 THEN PhiScale
        ELSE PhiTable[i + 1]
             + ((PhiTable[i + 2] - PhiTable[i + 1]) * frac) \div cell

\* norm.cdf(x, 0, 1) of a float value x; Phi(-d) = 1 - Phi(d).
NormCdf(x) ==
    CASE x.k = "nan" -> NaN
      [] x.k = "inf" -> Fin(IF x.n > 0 THEN PhiScale ELSE 0)
      [] OTHER -> Fin(IF x.n >= 0 THEN PhiNonNeg(x.n)
                      ELSE PhiScale - PhiNonNeg(-x.n))

\* -x of a float value.
Neg(x) ==
    CASE x.k = "fin" -> Fin(-x.n)
      [] x.k = "inf" -> Inf(-x.n)
      [] OTHER -> x

\* round(x, 2) of a finite fixed-point number n in 1/scale: cents.
Round2(n, scale) == RoundHalfEven(n, scale \div CentScale)

\* ------------------------------------------------------------------ ranges
NumPoints == 9
Span == 4

\* linspace without its endpoint (endpoint=False): the step is one num-th.
linspace_no_endpoint(start, stop, num) ==
    [i \in 1..num |-> start + ((i - 1) * (stop - start)) \div num]

\* np.linspace(start, stop, num): num evenly spaced points, the last one stop.
linspace(start, stop, num) ==
    [i \in 1..num |->
        IF i = num THEN stop
        ELSE start + ((i - 1) * (stop - start)) \div (num - 1)]

\* .astype(int) of a money value: the fraction is cut, toward zero.
astype_int(x) == TruncDiv(x, MoneyScale) * MoneyScale

\* ranges built with np.arange(lower_bound, upper_bound): the end is left out.
ranges_arange(x) ==
    LET upper_bound == x + Span * MoneyScale
        lower_bound == x - Span * MoneyScale
    IN  [i \in 1..((upper_bound - lower_bound) \div MoneyScale) |->
            astype_int(lower_bound + (i - 1) * MoneyScale)]

\* def ranges(x)
ranges(x) ==
    LET upper_bound == x + Span * MoneyScale
        lower_bound == x - Span * MoneyScale
        pts == linspace(lower_bound, upper_bound, NumPoints)
    IN  [i \in 1..NumPoints |-> astype_int(pts[i])]

\* ------------------------------------------------------------ BlackScholes
\* Fixed-point resolution of an unrounded option price.
PriceScale == MoneyScale * PhiScale * ExpScale

\* x / y of line 66 for finite x, y (numpy floats: no exception on y = 0).
FloatDiv(num, den) ==
    IF den = 0
    THEN IF num > 0 THEN Inf(1) ELSE IF num < 0 THEN Inf(-1) ELSE NaN
    ELSE Fin(TruncDiv(num * ((RateScale * DScale * DScale) \div LnScale), den))

\* x - y for a float value x and a finite y.
FloatSub(x, y) == IF x.k = "fin" THEN Fin(x.n - y) ELSE x

\* round(a * x - b * y, 2) for float values a, b and finite x, y whose
\* products are in 1/PriceScale (lines 71, 74).
RoundedPrice(a, x, b, y) ==
    IF a.k = "nan" \/ b.k = "nan" THEN NaN
    ELSE Fin(Round2(a.n * x - b.n * y, PriceScale))

\* Phi(-d) for a float value d.
NormCdfNeg(d) == NormCdf(Neg(d))

\* BlackScholes with d1 and d2 exchanged in the put.
BlackScholes_put_swapped(S, K, r, t, v, type) ==
    LET num == LogRatio(S, K)
               + ((2 * RateScale * r + v * v) * t) \div (2 * DaysPerYear)
        den == v * SqrtYears(t)
        d1 == FloatDiv(num, den)
        d2 == FloatSub(d1, den \div RateScale)
        disc == ExpNegRT(r, t)
    IN  IF type = "Call"
        THEN RoundedPrice(NormCdf(d1), S * ExpScale, NormCdf(d2), K * disc)
        ELSE IF type = "Put"
        THEN RoundedPrice(NormCdfNeg(d1), K * disc, NormCdfNeg(d2), S * ExpScale)
        ELSE None

\* def BlackScholes(S, K, r, t, v, type): S, K in 1/MoneyScale dollars, r and
\* v in 1/RateScale, t in days.  (LnScale = RateScale^2, so (r + v^2/2) t in
\* 1/LnScale is (2 RateScale r + v^2) days / (2 * 365).)
BlackScholes(S, K, r, t, v, type) ==
    LET num == LogRatio(S, K)
               + ((2 * RateScale * r + v * v) * t) \div (2 * DaysPerYear)
        den == v * SqrtYears(t)
        d1 == FloatDiv(num, den)
        d2 == FloatSub(d1, den \div RateScale)
        disc == ExpNegRT(r, t)
    IN  IF type = "Call"
        THEN RoundedPrice(NormCdf(d1), S * ExpScale, NormCdf(d2), K * disc)
        ELSE IF type = "Put"
        THEN RoundedPrice(NormCdfNeg(d2), K * disc, NormCdfNeg(d1), S * ExpScale)
        ELSE None   \* Price is unbound: the bare except prints, returns None

\* -------------------------------------------------------- calculate_payoff
Multiplier == 100

\* net without the position: always exit - entry.
net_ignores_position(entry, exit, position) ==
    IF entry.k = "none" \/ exit.k = "none" THEN Raised("TypeError")
    ELSE IF entry.k = "nan" \/ exit.k = "nan" THEN NaN
    ELSE Fin(Round2((exit.n - entry.n) * Multiplier, CentScale))

\* Line 85: the position-aware net, rounded to cents.
net(entry, exit, position) ==
    IF entry.k = "none" \/ exit.k = "none" THEN Raised("TypeError")
    ELSE IF entry.k = "nan" \/ exit.k = "nan" THEN NaN
    ELSE IF position = "Long"
    THEN Fin(Round2((exit.n - entry.n) * Multiplier, CentScale))
    ELSE Fin(Round2((entry.n - exit.n) * Multiplier, CentScale))

\* quotes with the option kind not passed on for the entry: the pricer's
\* default, "Call", is used.
quotes_default_kind(pS1, pK, pr1, pt1, pv1, pS2, pr2, pt2, pv2, option) ==
    [entry |-> BlackScholes(pS1, pK, pr1, pt1, pv1, "Call"),
     exit |-> BlackScholes(pS2, pK, pr2, pt2, pv2, option)]

\* Lines 82-83: the two quotes calculate_payoff takes from the pricer.
quotes(pS1, pK, pr1, pt1, pv1, pS2, pr2, pt2, pv2, option) ==
    [entry |-> BlackScholes(pS1, pK, pr1, pt1, pv1, option),
     exit |-> BlackScholes(pS2, pK, pr2, pt2, pv2, option)]

\* calculate_payoff with the entry priced at the T1 time to expiry.
calculate_payoff_entry_at_t2(pS1, pK, pr1, pt1, pv1, pS2, pr2, pt2, pv2, option, pos) ==
    LET q == quotes(pS1, pK, pr1, pt2, pv1, pS2, pr2, pt2, pv2, option)
    IN  net(q.entry, q.exit, pos)

\* def calculate_payoff(S1, K, r1, t1, v1, S2, r2, t2, v2, option, position)
calculate_payoff(pS1, pK, pr1, pt1, pv1, pS2, pr2, pt2, pv2, option, pos) ==
    LET q == quotes(pS1, pK, pr1, pt1, pv1, pS2, pr2, pt2, pv2, option)
    IN  net(q.entry, q.exit, pos)

\* round(x) of line 117: a whole number of dollars, or ValueError on NaN.
Round0(x) ==
    IF x.k = "nan" THEN Raised("ValueError")
    ELSE Fin(RoundHalfEven(x.n, CentScale))

\* ------------------------------------------------------------------- state
VARIABLES
    K, type, position,       \* lines 26, 34, 36
    S1, r1, v1, t1,          \* lines 42-45 (T0)
    S2, r2, v2, t2,          \* lines 51-54 (T1)
    pc,                      \* the statement the script run is at
    spot_range, strike_range,
    df,                      \* the long-form table, one row per pair
    heatmap_data,            \* the pivoted table
    entry, exit, payoff,     \* the headline call of calculate_payoff
    net_return,
    rendered,                \* the table handed to sns.heatmap
    exc,                     \* the exception that ended the run, or ""
    reruns                   \* widget interactions so far

widgets == <<K, type, position, S1, r1, v1, t1, S2, r2, v2, t2>>
run == <<pc, spot_range, strike_range, df, heatmap_data, entry, exit, payoff,
         net_return, rendered, exc>>
vars == <<widgets, run, reruns>>

\* ------------------------------------------------------------------ bounds
MaxReruns == 3
MaxShift == 1

\* -------------------------------------------------------------- the tables
NoGrid == [index |-> <<>>, columns |-> <<>>, values |-> <<>>]

RECURSIVE SortedSeq(_)
\* The elements of a finite set of integers, ascending.
SortedSeq(S) ==
    IF S = {} THEN <<>>
    ELSE LET m == CHOOSE x \in S : \A y \in S : x <= y
         IN  <<m>> \o SortedSeq(S \ {m})

\* Lines 94-97: one row per (spot, strike), spots outermost.
frame(spots, strikes) ==
    [n \in 1..(Len(spots) * Len(strikes)) |->
        [Spot |-> spots[((n - 1) \div Len(strikes)) + 1],
         Strike |-> strikes[((n - 1) % Len(strikes)) + 1]]]

\* The lambda with the two columns exchanged.
row_payoff_swapped(row, pS1, pr1, pt1, pv1, pr2, pt2, pv2, option, pos) ==
    calculate_payoff(pS1, row.Spot, pr1, pt1, pv1,
                     row.Strike, pr2, pt2, pv2, option, pos)

\* Line 100: the lambda applied to one row.
row_payoff(row, pS1, pr1, pt1, pv1, pr2, pt2, pv2, option, pos) ==
    calculate_payoff(pS1, row.Strike, pr1, pt1, pv1,
                     row.Spot, pr2, pt2, pv2, option, pos)

\* The rows of a table that hold the pair (s, k).
hits(table, s, k) ==
    {n \in DOMAIN table : table[n].Spot = s /\ table[n].Strike = k}

\* Line 103: pivot raises ValueError when two rows hold the same pair.
has_duplicates(table) ==
    \E a, b \in DOMAIN table :
        a < b /\ table[a].Spot = table[b].Spot /\ table[a].Strike = table[b].Strike

\* pivot with index and columns exchanged.
pivot_transposed(table) ==
    LET idx == {table[n].Strike : n \in DOMAIN table}
        cols == {table[n].Spot : n \in DOMAIN table}
    IN  [index |-> SortedSeq(idx),
         columns |-> SortedSeq(cols),
         values |-> [p \in idx \X cols |->
                       IF hits(table, p[2], p[1]) = {} THEN NaN
                       ELSE table[CHOOSE n \in hits(table, p[2], p[1]) : TRUE].PnL]]

\* Line 103: df.pivot(index='Spot Prices', columns='Strike Prices',
\* values='P&L'): sorted axes, one cell per (index, column), NaN where no row
\* holds the pair.
pivot(table) ==
    LET idx == {table[n].Spot : n \in DOMAIN table}
        cols == {table[n].Strike : n \in DOMAIN table}
    IN  [index |-> SortedSeq(idx),
         columns |-> SortedSeq(cols),
         values |-> [p \in idx \X cols |->
                       IF hits(table, p[1], p[2]) = {} THEN NaN
                       ELSE table[CHOOSE n \in hits(table, p[1], p[2]) : TRUE].PnL]]

\* ------------------------------------------------------------- the widgets
Dollars(n) == n * MoneyScale

\* The default value of every widget, in the order of `widgets`.
Defaults ==
    <<Dollars(95), "Call", "Long",
      Dollars(100), 3, 20, 60,
      Dollars(101), 3, 20, 40>>

\* Values the sliders and select boxes can take (a bounded part of each
\* slider's range: whole dollars, rates and volatilities in steps of 0.01,
\* at least one day to expiry).
SliderChoices ==
    <<{Dollars(95 + d) : d \in 0..MaxShift}, {"Call", "Put"}, {"Long", "Short"},
      {Dollars(100 + d) : d \in 0..MaxShift}, {3, 5}, {20, 30}, {40, 60},
      {Dollars(101 - d) : d \in 0..MaxShift}, {3, 5}, {20, 30}, {40, 60}>>

\* Values a caller of the core can pass when no slider confines them: any
\* number for the anchors (here in half dollars), zero time or volatility,
\* an option kind the pricer does not know.
CallerChoices ==
    <<{Dollars(95) + h : h \in 0..MaxShift}, {"Call", "Put", "Straddle"},
      {"Long", "Short"},
      {Dollars(100), Dollars(98), Dollars(95)}, {3}, {0, 20}, {0, 60},
      {Dollars(101) - h : h \in 0..(MaxShift + 1)}, {3}, {0, 20}, {0, 40}>>

\* ------------------------------------------------------------- the script
FreshRun ==
    /\ pc = "ranges"
    /\ spot_range = <<>>
    /\ strike_range = <<>>
    /\ df = <<>>
    /\ heatmap_data = NoGrid
    /\ entry = None
    /\ exit = None
    /\ payoff = None
    /\ net_return = None
    /\ rendered = NoGrid
    /\ exc = ""

\* The script starts again from the top, nothing of the last run is kept.
Restarts ==
    /\ pc' = "ranges"
    /\ spot_range' = <<>>
    /\ strike_range' = <<>>
    /\ df' = <<>>
    /\ heatmap_data' = NoGrid
    /\ entry' = None
    /\ exit' = None
    /\ payoff' = None
    /\ net_return' = None
    /\ rendered' = NoGrid
    /\ exc' = ""

\* Lines 26-54: the widgets hold the values w.
Reads(w) ==
    /\ K = w[1] /\ type = w[2] /\ position = w[3]
    /\ S1 = w[4] /\ r1 = w[5] /\ v1 = w[6] /\ t1 = w[7]
    /\ S2 = w[8] /\ r2 = w[9] /\ v2 = w[10] /\ t2 = w[11]

\* A widget interaction leaves the widgets holding the values w.
Sets(w) ==
    /\ K' = w[1] /\ type' = w[2] /\ position' = w[3]
    /\ S1' = w[4] /\ r1' = w[5] /\ v1' = w[6] /\ t1' = w[7]
    /\ S2' = w[8] /\ r2' = w[9] /\ v2' = w[10] /\ t2' = w[11]

Init ==
    /\ Reads(Defaults)
    /\ FreshRun
    /\ reruns = 0

\* An uncaught exception ends the script run.
Crash(e, keep) ==
    /\ pc' = "crashed"
    /\ exc' = e
    /\ UNCHANGED keep

\* Lines 90-91.
ComputeRanges ==
    /\ pc = "ranges"
    /\ spot_range' = ranges(S2)
    /\ strike_range' = ranges(K)
    /\ pc' = "frame"
    /\ UNCHANGED <<widgets, reruns, df, heatmap_data, entry, exit, payoff,
                   net_return, rendered, exc>>

\* Lines 94-97.
BuildFrame ==
    /\ pc = "frame"
    /\ df' = frame(spot_range, strike_range)
    /\ pc' = "apply"
    /\ UNCHANGED <<widgets, reruns, spot_range, strike_range, heatmap_data,
                   entry, exit, payoff, net_return, rendered, exc>>

\* Line 100: the P&L column; an exception of any row ends the run.
ApplyPayoff ==
    /\ pc = "apply"
    /\ LET pnl == [n \in DOMAIN df |->
                     row_payoff(df[n], S1, r1, t1, v1, r2, t2, v2, type, position)]
       IN  IF \E n \in DOMAIN df : pnl[n].k \notin {"fin", "nan"}
           THEN Crash("TypeError", <<df>>)
           ELSE /\ df' = [n \in DOMAIN df |->
                            [Spot |-> df[n].Spot, Strike |-> df[n].Strike,
                             PnL |-> pnl[n]]]
                /\ pc' = "pivot"
                /\ exc' = exc
    /\ UNCHANGED <<widgets, reruns, spot_range, strike_range, heatmap_data,
                   entry, exit, payoff, net_return, rendered>>

\* Line 103.
Pivot ==
    /\ pc = "pivot"
    /\ IF has_duplicates(df)
       THEN Crash("ValueError", <<heatmap_data>>)
       ELSE /\ heatmap_data' = pivot(df)
            /\ pc' = "headline"
            /\ exc' = exc
    /\ UNCHANGED <<widgets, reruns, spot_range, strike_range, df, entry, exit,
                   payoff, net_return, rendered>>

\* Line 117: net_return = round(calculate_payoff(S1, K, ..., type, position)).
Headline ==
    /\ pc = "headline"
    /\ LET q == quotes(S1, K, r1, t1, v1, S2, r2, t2, v2, type)
           p == calculate_payoff(S1, K, r1, t1, v1, S2, r2, t2, v2, type, position)
       IN  /\ entry' = q.entry
           /\ exit' = q.exit
           /\ IF p.k \notin {"fin", "nan"}
              THEN Crash(p.k, <<payoff, net_return>>)
              ELSE /\ payoff' = p
                   /\ IF Round0(p).k # "fin"
                      THEN Crash(Round0(p).k, <<net_return>>)
                      ELSE /\ net_return' = Round0(p)
                           /\ pc' = "render"
                           /\ exc' = exc
    /\ UNCHANGED <<widgets, reruns, spot_range, strike_range, df, heatmap_data,
                   rendered>>

\* Lines 123-137: the heatmap is drawn from heatmap_data.
Render ==
    /\ pc = "render"
    /\ rendered' = heatmap_data
    /\ pc' = "done"
    /\ UNCHANGED <<widgets, reruns, spot_range, strike_range, df, heatmap_data,
                   entry, exit, payoff, net_return, exc>>

Script ==
    \/ ComputeRanges
    \/ BuildFrame
    \/ ApplyPayoff
    \/ Pivot
    \/ Headline
    \/ Render

\* A widget gets a new value out of `choices` and the script runs again from
\* the top (lines 26-54 read the widgets).
RerunWith(choices) ==
    /\ reruns < MaxReruns
    /\ \E i \in DOMAIN choices :
         \E val \in choices[i] :
            /\ val # widgets[i]
            /\ Sets([widgets EXCEPT ![i] = val])
    /\ Restarts
    /\ reruns' = reruns + 1

\* The user moves a slider or picks from a select box.
Rerun == RerunWith(SliderChoices)

\* A caller of the core passes a parameter of its own choosing.
Request == RerunWith(CallerChoices)

Next == Script \/ Rerun

\* The app: the script driven by its widgets.
Spec == Init /\ [][Next]_vars

NextCore == Script \/ Request

\* The core on its own: the same statements, their inputs passed by a
\* caller that no slider range confines.
SpecCore == Init /\ [][NextCore]_vars

\* ------------------------------------------------------------ the claims
\* The headline call of calculate_payoff has taken its two quotes.
Priced == pc \in {"render", "done"}

\* The pivoted table exists.
Pivoted == pc \in {"headline", "render", "done"}

\* A snapshot the pricer is meant to refuse: no time left, or no volatility.
Invalid(t, v) == t = 0 \/ v = 0

\* C1: pricing with t = 0 or v = 0 fails with InvalidParameters; no value
\* (a number, NaN, None) comes back to the caller.
C1_InvalidInputFails ==
    Priced =>
        /\ Invalid(t1, v1) => entry = Raised("InvalidParameters")
        /\ Invalid(t2, v2) => exit = Raised("InvalidParameters")

\* C2: when the pricer is given an invalid entry or exit snapshot the whole
\* grid build fails: no grid is handed on, and a grid that is handed on never
\* holds a placeholder cell (NaN, None).
C2_FailureFailsTheGrid ==
    /\ (Invalid(t1, v1) \/ Invalid(t2, v2)) => rendered = NoGrid
    /\ \A p \in DOMAIN rendered.values : rendered.values[p].k = "fin"

\* seq is the nine whole-dollar values anchor - 4, ..., anchor + 4, in steps
\* of one dollar.
IsRangeAround(seq, anchor) ==
    /\ Len(seq) = 9
    /\ seq[1] = anchor - Dollars(4)
    /\ seq[Len(seq)] = anchor + Dollars(4)
    /\ \A i \in 1..Len(seq) : seq[i] % MoneyScale = 0
    /\ \A i \in 1..(Len(seq) - 1) : seq[i + 1] - seq[i] = Dollars(1)

\* C3: the grid has exactly 9 x 9 = 81 cells, one for every pair of the cross
\* product of the two ranges, none missing and none twice, and both axes are
\* strictly ascending and centred on their anchors +/- 4.
C3_GridIsDenseAndCentred ==
    Pivoted =>
        LET g == heatmap_data
            pairs == {<<spot_range[i], strike_range[j]>> :
                        i \in DOMAIN spot_range, j \in DOMAIN strike_range}
        IN  /\ Len(g.index) = 9 /\ Len(g.columns) = 9
            /\ Cardinality(DOMAIN g.values) = 81
            /\ DOMAIN g.values = pairs
            /\ \A p \in pairs : Cardinality(hits(df, p[1], p[2])) = 1
            /\ \A i, j \in DOMAIN g.index : i < j => g.index[i] < g.index[j]
            /\ \A i, j \in DOMAIN g.columns : i < j => g.columns[i] < g.columns[j]
            /\ IsRangeAround(g.index, S2)
            /\ IsRangeAround(g.columns, K)

C3_Witness ==
    /\ pc = "done"
    /\ rendered = heatmap_data
    /\ Cardinality(DOMAIN rendered.values) = 81
    /\ K # Defaults[1]
    /\ S2 # Defaults[8]

\* C4: the cell at (spot, strike) holds the P&L of calculate_payoff with that
\* strike for K (entry and exit) and that spot for S2, every other parameter
\* the caller's.
C4_CellIsPayoffOfItsPair ==
    Pivoted =>
        \A i \in DOMAIN spot_range, j \in DOMAIN strike_range :
            LET spot == spot_range[i]
                strike == strike_range[j]
            IN  /\ <<spot, strike>> \in DOMAIN heatmap_data.values
                /\ heatmap_data.values[<<spot, strike>>]
                     = calculate_payoff(S1, strike, r1, t1, v1,
                                        spot, r2, t2, v2, type, position)

C4_Witness ==
    /\ pc = "done"
    /\ type = "Put"
    /\ position = "Short"
    /\ \E p, q \in DOMAIN heatmap_data.values :
          /\ p[1] = q[2] /\ p[2] = q[1]
          /\ heatmap_data.values[p] # heatmap_data.values[q]

\* C5 as stated: whatever the anchor, ranges returns anchor - 4, ...,
\* anchor + 4, nine whole numbers in steps of 1.
C5_AnyAnchor ==
    spot_range # <<>> =>
        /\ IsRangeAround(spot_range, S2)
        /\ IsRangeAround(strike_range, K)

\* C5, amended: for a whole-number anchor, ranges returns the nine whole
\* numbers anchor - 4, ..., anchor + 4, ascending in steps of 1.
C5_WholeAnchor ==
    spot_range # <<>> =>
        /\ S2 % MoneyScale = 0 => IsRangeAround(spot_range, S2)
        /\ K % MoneyScale = 0 => IsRangeAround(strike_range, K)

C5_Witness ==
    /\ spot_range # <<>>
    /\ S2 % MoneyScale = 0
    /\ S2 # Defaults[8]
    /\ IsRangeAround(spot_range, S2)

Opposite(pos) == IF pos = "Long" THEN "Short" ELSE "Long"

\* C6: the P&L of a position is the exact negation of the P&L of the opposite
\* position over the same entry and exit snapshots, after rounding to cents.
C6_LongIsMinusShort ==
    Priced =>
        payoff = Neg(calculate_payoff(S1, K, r1, t1, v1, S2, r2, t2, v2,
                                      type, Opposite(position)))

C6_Witness ==
    /\ pc = "done"
    /\ position = "Short"
    /\ payoff.k = "fin"
    /\ payoff.n > 0

\* The T0 and the T1 snapshot are the same snapshot.
SameSnapshot == S1 = S2 /\ r1 = r2 /\ t1 = t2 /\ v1 = v2

\* C7: a Long position whose entry and exit snapshots are the same has P&L 0.
C7_SameSnapshotIsZero ==
    (Priced /\ SameSnapshot /\ position = "Long") => payoff = Fin(0)

C7_Witness ==
    /\ pc = "done"
    /\ SameSnapshot
    /\ position = "Long"
    /\ type = "Put"
    /\ entry.n > 0

\* round(net x m, 2) for the two quotes of the headline call.
PnLWith(m) ==
    Fin(Round2((IF position = "Long" THEN exit.n - entry.n
                ELSE entry.n - exit.n) * m, CentScale))

\* Contract multipliers a caller may want.
CallerMultipliers == {100, 10, 1}

\* The quotes of the headline call are the pricer's, for the T0 and the T1
\* snapshot with the same strike and kind.
QuotesAreThePricers ==
    /\ entry = BlackScholes(S1, K, r1, t1, v1, type)
    /\ exit = BlackScholes(S2, K, r2, t2, v2, type)

\* C8 as stated: the P&L is round(net x multiplier, 2) for the multiplier of
\* the caller, whichever it is.
C8_CallerMultiplier ==
    Priced =>
        /\ QuotesAreThePricers
        /\ \A m \in CallerMultipliers : payoff = PnLWith(m)

\* C8, amended: the P&L is round(net x 100, 2); the multiplier is always 100.
C8_FixedMultiplier ==
    Priced =>
        /\ QuotesAreThePricers
        /\ payoff = PnLWith(100)

C8_Witness ==
    /\ pc = "done"
    /\ position = "Short"
    /\ entry.n # exit.n
    /\ type = "Call"

\* S - K e^(-r t) in 1/PriceScale.
Forward(S, K_, r, t) == S * ExpScale * PhiScale - K_ * ExpNegRT(r, t) * PhiScale

\* Call - Put = S - K e^(-r t) within 0.01, for one snapshot.
Parity(S, K_, r, t, v) ==
    LET call == BlackScholes(S, K_, r, t, v, "Call")
        put == BlackScholes(S, K_, r, t, v, "Put")
        cent == PriceScale \div CentScale
    IN  /\ call.k = "fin" /\ put.k = "fin"
        /\ Abs((call.n - put.n) * cent - Forward(S, K_, r, t)) <= cent

\* C9: put-call parity within 0.01, for the snapshots the run prices: the
\* headline's two and those of every cell of the grid.
C9_PutCallParity ==
    pc = "done" =>
        /\ entry = BlackScholes(S1, K, r1, t1, v1, type)
        /\ Parity(S1, K, r1, t1, v1)
        /\ Parity(S2, K, r2, t2, v2)
        /\ \A n \in DOMAIN df :
              /\ Parity(S1, df[n].Strike, r1, t1, v1)
              /\ Parity(df[n].Spot, df[n].Strike, r2, t2, v2)

C9_Witness ==
    /\ pc = "done"
    /\ type = "Put"
    /\ entry.n > 0
    /\ BlackScholes(S1, K, r1, t1, v1, "Call").n > entry.n
    /\ r1 # Defaults[5]

\* C10: the centre cell of the grid, at (spot = S2, strike = K), is the
\* single-point P&L of the headline before it is rounded to whole dollars.
C10_CentreCellIsHeadline ==
    Priced =>
        /\ <<S2, K>> \in DOMAIN heatmap_data.values
        /\ heatmap_data.values[<<S2, K>>] = payoff

C10_Witness ==
    /\ pc = "done"
    /\ payoff.n # 0
    /\ net_return.n * CentScale = payoff.n
    /\ K # Defaults[1]

=============================================================================
